---- MODULE Spec2Model ----
(***************************************************************************)
(* The focus monitor of tagraw/tidal: the App shell (screen switching,     *)
(* insult, distraction counter) and the WorkScreen component (model        *)
(* loader, self-rescheduling detection loop, start/stop effect).           *)
(*                                                                         *)
(* Every WorkScreen activation (one mount of the component) is one entry   *)
(* of ws.  React is modelled by what it does to this code: a state change  *)
(* of App re-renders it, leaving the Work screen unmounts the WorkScreen   *)
(* (effect cleanups run, the webcam ref is detached), entering it mounts a *)
(* fresh one (effects run), and a state setter called on an unmounted      *)
(* component is a no-op.                                                   *)
(*                                                                         *)
(* Scores are in ten-thousandths (0.65 is 6500), the upper-half factor in  *)
(* tenths (0.5 is 5); both comparisons are exact on the values used.       *)
(***************************************************************************)
EXTENDS Integers, Sequences, FiniteSets, TLC

\* ---------------------------------------------------------------- bounds
MaxInst == 2
MaxTicks == 2
MaxLen == 2

\* ------------------------------------------------------------- constants
DETECTION_INTERVAL_MS == 400
CONFIDENCE_THRESHOLD == 6500
UPPER_HALF_THRESHOLD == 5

SCREENS == [WORK |-> "work", ALERT |-> "alert", MEME |-> "meme", STATS |-> "stats"]

StatusLoading == "Loading AI Model..."
StatusReady == "AI Ready. Get to work!"
StatusError == "Error loading AI. Check console."

mockInsult == "Seriously, another tab? Truly groundbreaking procrastination. Get back to the code!"
DefaultInsult == "You were caught!"

HAVE_ENOUGH_DATA == 4
ReadyStates == {0, HAVE_ENOUGH_DATA}
ConstraintHeight == 480

VARIABLES
    currentScreen,      \* App: useState(SCREENS.WORK)
    insult,             \* App: useState("")
    distractionCount,   \* App: useState(0)
    nInst,              \* number of WorkScreen activations so far
    ws,                 \* the WorkScreen activations
    predictions,        \* PredSpec: the Detection Set handed to predictions.some
    videoHeight,        \* PredSpec: the frame height sampled for it
    distracted,         \* PredSpec: the value of `distracted` computed from them
    last                \* the last step: [op, inst], and for a model.detect
                        \* that resolved its Detection Set and frame height

vars == <<currentScreen, insult, distractionCount, nInst, ws,
          predictions, videoHeight, distracted, last>>

Insts == 1..MaxInst

\* ------------------------------------------------- the trigger predicate
\* bbox is <<x, y, width, height>>
Bbox(x, y, w, h) == <<x, y, w, h>>
BboxY(prediction) == prediction.bbox[2]

isPhone(prediction) ==
    prediction.class = "cell phone" \/ prediction.class = "remote"

\* the confidence gate let through at exactly the threshold
isHighConfidence_atLeast(prediction) == prediction.score >= CONFIDENCE_THRESHOLD

isHighConfidence(prediction) == prediction.score > CONFIDENCE_THRESHOLD

\* y < videoHeight * 0.5, both sides in tenths
isUpperHalf(prediction, H) == BboxY(prediction) * 10 < H * UPPER_HALF_THRESHOLD

Matches(prediction, H) ==
    isPhone(prediction) /\ isHighConfidence(prediction) /\ isUpperHalf(prediction, H)

\* some() that looks at the first detection only
Some_firstOnly(preds, H) ==
    IF preds = <<>> THEN FALSE ELSE Matches(Head(preds), H)

\* Array.prototype.some: left to right, stops at the first match
RECURSIVE Some(_, _)
Some(preds, H) ==
    IF preds = <<>> THEN FALSE
    ELSE IF Matches(Head(preds), H) THEN TRUE
    ELSE Some(Tail(preds), H)

\* ------------------------------------------------------ WorkScreen pieces
\* A WorkScreen that was never rendered
Unborn ==
    [phase |-> "unborn", webcamRef |-> FALSE, readyState |-> 0,
     model |-> FALSE, status |-> StatusLoading, loadPc |-> "idle",
     timerId |-> "none", loopTimers |-> 0, inflight |-> <<>>,
     ticks |-> 0, lateTicks |-> 0, triggers |-> 0, rejections |-> 0,
     stopKind |-> "none"]

\* the guard without the readyState test
GuardOk_noReadyState(w) == w.model /\ w.webcamRef

\* line 43: model && webcamRef.current && webcamRef.current.video.readyState === 4
GuardOk(w) == w.model /\ w.webcamRef /\ w.readyState = HAVE_ENOUGH_DATA

\* line 91: setTimeout(runDetection, DETECTION_INTERVAL_MS); the id is dropped
SetTimeoutRunDetection(w) == [w EXCEPT !.loopTimers = @ + 1]

\* the start/stop effect without its `if (model)`
EffectStart_always(w) == [w EXCEPT !.timerId = "pending"]

\* lines 97-102: the body of the start/stop effect
EffectStart(w) ==
    IF w.model THEN [w EXCEPT !.timerId = "pending"] ELSE w

\* a cleanup that clears nothing
EffectCleanup_none(w) == w

\* lines 106-108: the cleanup of the start/stop effect
EffectCleanup(w) ==
    IF w.timerId = "pending" THEN [w EXCEPT !.timerId = "cleared"] ELSE w

\* runDetection setting the next timer before it awaits model.detect
BeginTick_eager(w) ==
    IF w.model /\ w.webcamRef /\ w.readyState = HAVE_ENOUGH_DATA
    THEN [w EXCEPT !.inflight = Append(@, ConstraintHeight), !.loopTimers = @ + 1]
    ELSE [w EXCEPT !.loopTimers = @ + 1]

\* lines 41-50 and 89-91: runDetection up to its suspension in model.detect
BeginTick(w) ==
    IF GuardOk(w)
    THEN [w EXCEPT !.inflight = Append(@, ConstraintHeight)]
    ELSE SetTimeoutRunDetection(w)

\* a tick that never reschedules
TickEnd_noResched(w, d) == w

\* the trigger branch without its `return`
TickEnd_noReturn(w, d) == [w EXCEPT !.loopTimers = @ + 1]

\* lines 73-91: after the predicate, return on a trigger, else reschedule
TickEnd(w, d) == IF d THEN w ELSE SetTimeoutRunDetection(w)

\* what the loop of w is doing when the stop signal arrives
StopKind(w) ==
    IF w.inflight # <<>> THEN "inference"
    ELSE IF w.timerId = "pending" \/ w.loopTimers > 0 THEN "gap"
    ELSE IF w.loadPc \in {"awaitReady", "awaitLoad"} THEN "loading"
    ELSE "idle"

\* React mounts a WorkScreen: state cells initialised, ref attached, both
\* effects run (loadModel is called and suspends in tf.ready(); model is null)
Mount ==
    EffectStart([Unborn EXCEPT !.phase = "mounted", !.webcamRef = TRUE,
                               !.loadPc = "awaitReady"])

\* an unmount that leaves webcamRef.current attached
Unmount_keepRef(w) ==
    [EffectCleanup(w) EXCEPT !.phase = "unmounted", !.stopKind = StopKind(w)]

\* React unmounts a WorkScreen: the effect cleanup runs, the ref is detached
\* and the video element goes with it (nothing can read its readyState)
Unmount(w) ==
    [EffectCleanup(w) EXCEPT !.phase = "unmounted", !.webcamRef = FALSE,
                             !.readyState = 0, !.stopKind = StopKind(w)]

\* ------------------------------------------------------------ App pieces
NoData == [k \in {} |-> ""]

\* data.insult || "You were caught!"
InsultOf(data) ==
    IF "insult" \in DOMAIN data /\ data.insult # "" THEN data.insult ELSE DefaultInsult

\* navigate counting every screen change as a distraction
navigate_countAll(screen, data) ==
    [currentScreen |-> screen,
     insult |-> IF screen = SCREENS.ALERT THEN InsultOf(data) ELSE insult,
     distractionCount |-> distractionCount + 1]

\* App.navigate: the three state cells after the call
navigate(screen, data) ==
    [currentScreen |-> screen,
     insult |-> IF screen = SCREENS.ALERT THEN InsultOf(data) ELSE insult,
     distractionCount |-> IF screen = SCREENS.ALERT
                          THEN distractionCount + 1 ELSE distractionCount]

\* renderScreen: WORK and the default case render a WorkScreen
RendersWork(screen) == screen \notin {SCREENS.ALERT, SCREENS.MEME, SCREENS.STATS}

\* the re-render of App after currentScreen went from prev to next
renderScreen(prev, next, w, n) ==
    IF RendersWork(prev) /\ ~RendersWork(next)
    THEN [ws |-> [i \in Insts |-> IF w[i].phase = "mounted" THEN Unmount(w[i]) ELSE w[i]],
          nInst |-> n]
    ELSE IF ~RendersWork(prev) /\ RendersWork(next)
    THEN [ws |-> [w EXCEPT ![n + 1] = Mount], nInst |-> n + 1]
    ELSE [ws |-> w, nInst |-> n]

\* a call of App.navigate and the re-render it causes, from the activations w
NavigateStep(screen, data, w) ==
    LET app == navigate(screen, data)
        r == renderScreen(currentScreen, screen, w, nInst)
    IN /\ RendersWork(screen) /\ ~RendersWork(currentScreen) => nInst < MaxInst
       /\ currentScreen' = app.currentScreen
       /\ insult' = app.insult
       /\ distractionCount' = app.distractionCount
       /\ ws' = r.ws
       /\ nInst' = r.nInst

\* ------------------------------------------------------------------ Init
Init ==
    /\ currentScreen = SCREENS.WORK
    /\ insult = ""
    /\ distractionCount = 0
    /\ nInst = 1
    /\ ws = [i \in Insts |-> IF i = 1 THEN Mount ELSE Unborn]
    /\ predictions = <<>>
    /\ videoHeight = ConstraintHeight
    /\ distracted = FALSE
    /\ last = [op |-> "mount", inst |-> 1]

\* --------------------------------------------------------------- actions
\* nav bar: onClick={() => navigate(SCREENS.WORK)}
ClickWorkMode ==
    /\ NavigateStep(SCREENS.WORK, NoData, ws)
    /\ last' = [op |-> "nav", inst |-> 0]
    /\ UNCHANGED <<predictions, videoHeight, distracted>>

\* nav bar: onClick={() => navigate(SCREENS.STATS)}
ClickViewStats ==
    /\ NavigateStep(SCREENS.STATS, NoData, ws)
    /\ last' = [op |-> "nav", inst |-> 0]
    /\ UNCHANGED <<predictions, videoHeight, distracted>>

\* WorkScreen button: onClick={() => navigate(SCREENS.STATS)}
ClickDoneForNow(i) ==
    /\ ws[i].phase = "mounted"
    /\ NavigateStep(SCREENS.STATS, NoData, ws)
    /\ last' = [op |-> "nav", inst |-> i]
    /\ UNCHANGED <<predictions, videoHeight, distracted>>

\* the webcam stream of a mounted WorkScreen changes its readyState
VideoReadyState(i, r) ==
    /\ ws[i].phase = "mounted"
    /\ ws[i].readyState # r
    /\ ws' = [ws EXCEPT ![i].readyState = r]
    /\ last' = [op |-> "video", inst |-> i]
    /\ UNCHANGED <<currentScreen, insult, distractionCount, nInst,
                   predictions, videoHeight, distracted>>

\* loadModel: await tf.ready() resolves, cocoSsd.load() is called
TfReadyResolves(i) ==
    /\ ws[i].loadPc = "awaitReady"
    /\ ws' = [ws EXCEPT ![i].loadPc = "awaitLoad"]
    /\ last' = [op |-> "tfReady", inst |-> i]
    /\ UNCHANGED <<currentScreen, insult, distractionCount, nInst,
                   predictions, videoHeight, distracted>>

\* the catch branch of loadModel: setStatus(error), a no-op once unmounted
LoadFailed(w) ==
    IF w.phase = "mounted"
    THEN [w EXCEPT !.loadPc = "failed", !.status = StatusError]
    ELSE [w EXCEPT !.loadPc = "failed"]

\* loadModel: tf.ready() or cocoSsd.load() rejects
LoadRejects(i) ==
    /\ ws[i].loadPc \in {"awaitReady", "awaitLoad"}
    /\ ws' = [ws EXCEPT ![i] = LoadFailed(@)]
    /\ last' = [op |-> "loadFail", inst |-> i]
    /\ UNCHANGED <<currentScreen, insult, distractionCount, nInst,
                   predictions, videoHeight, distracted>>

\* a load that sets the model and forgets the status
LoadSucceeded_noStatus(w) ==
    IF w.phase = "mounted"
    THEN EffectStart(EffectCleanup([w EXCEPT !.loadPc = "loaded", !.model = TRUE]))
    ELSE [w EXCEPT !.loadPc = "loaded"]

\* a load whose state updates and effect also run on a torn-down WorkScreen
LoadSucceeded_unmounted(w) ==
    EffectStart(EffectCleanup(
        [w EXCEPT !.loadPc = "loaded", !.model = TRUE, !.status = StatusReady]))

\* setModel(loadedModel); setStatus(ready); the re-render re-runs the
\* start/stop effect (cleanup of the old one, then its body); all of it a
\* no-op once unmounted
LoadSucceeded(w) ==
    IF w.phase = "mounted"
    THEN EffectStart(EffectCleanup(
             [w EXCEPT !.loadPc = "loaded", !.model = TRUE, !.status = StatusReady]))
    ELSE [w EXCEPT !.loadPc = "loaded"]

\* loadModel: cocoSsd.load() resolves
LoadResolves(i) ==
    /\ ws[i].loadPc = "awaitLoad"
    /\ ws' = [ws EXCEPT ![i] = LoadSucceeded(@)]
    /\ last' = [op |-> "loaded", inst |-> i]
    /\ UNCHANGED <<currentScreen, insult, distractionCount, nInst,
                   predictions, videoHeight, distracted>>

\* runDetection is entered: a tick begins
RunDetection(w) ==
    LET b == BeginTick(w)
    IN [b EXCEPT !.ticks = @ + 1,
                 !.lateTicks = IF w.phase = "unmounted" THEN @ + 1 ELSE @]

TickOp(w) == IF GuardOk(w) THEN "detect" ELSE "skip"

\* the timer of the start/stop effect fires
EffectTimerFires(i) ==
    /\ ws[i].timerId = "pending"
    /\ ws[i].ticks < MaxTicks
    /\ ws' = [ws EXCEPT ![i] = RunDetection([@ EXCEPT !.timerId = "fired"])]
    /\ last' = [op |-> TickOp(ws[i]), inst |-> i]
    /\ UNCHANGED <<currentScreen, insult, distractionCount, nInst,
                   predictions, videoHeight, distracted>>

\* a timer set by runDetection itself fires
LoopTimerFires(i) ==
    /\ ws[i].loopTimers > 0
    /\ ws[i].ticks < MaxTicks
    /\ ws' = [ws EXCEPT ![i] = RunDetection([@ EXCEPT !.loopTimers = @ - 1])]
    /\ last' = [op |-> TickOp(ws[i]), inst |-> i]
    /\ UNCHANGED <<currentScreen, insult, distractionCount, nInst,
                   predictions, videoHeight, distracted>>

\* the Detection Sets the scripted model returns
Phone(score, y) == [class |-> "cell phone", score |-> score, bbox |-> Bbox(10, y, 100, 150)]
Book(score, y) == [class |-> "book", score |-> score, bbox |-> Bbox(10, y, 100, 150)]
ScriptedSets ==
    { <<>>, <<Phone(9000, 50)>>, <<Book(9000, 50)>>, <<Book(9000, 50), Phone(9000, 300)>>,
      <<Book(9000, 50), Phone(9000, 50)>> }

\* model.detect resolves: lines 50-91
DetectResolves(i, preds) ==
    /\ ws[i].inflight # <<>>
    /\ LET H == Head(ws[i].inflight)
           d == Some(preds, H)
           w1 == [ws[i] EXCEPT !.inflight = Tail(@)]
       IN /\ UNCHANGED <<predictions, videoHeight, distracted>>
          /\ IF d
             THEN /\ NavigateStep(SCREENS.ALERT, [insult |-> mockInsult],
                         [ws EXCEPT ![i] = TickEnd([w1 EXCEPT !.triggers = @ + 1], d)])
                  /\ last' = [op |-> "trigger", inst |-> i, preds |-> preds, H |-> H]
             ELSE /\ ws' = [ws EXCEPT ![i] = TickEnd(w1, d)]
                  /\ last' = [op |-> "resched", inst |-> i, preds |-> preds, H |-> H]
                  /\ UNCHANGED <<currentScreen, insult, distractionCount, nInst>>

\* model.detect rejects: runDetection has no try/catch, its promise rejects
DetectRejects(i) ==
    /\ ws[i].inflight # <<>>
    /\ ws' = [ws EXCEPT ![i] = [@ EXCEPT !.inflight = Tail(@), !.rejections = @ + 1]]
    /\ last' = [op |-> "fail", inst |-> i]
    /\ UNCHANGED <<currentScreen, insult, distractionCount, nInst,
                   predictions, videoHeight, distracted>>

Next ==
    \/ ClickWorkMode
    \/ ClickViewStats
    \/ \E i \in Insts : ClickDoneForNow(i)
    \/ \E i \in Insts, r \in ReadyStates : VideoReadyState(i, r)
    \/ \E i \in Insts : TfReadyResolves(i)
    \/ \E i \in Insts : LoadRejects(i)
    \/ \E i \in Insts : LoadResolves(i)
    \/ \E i \in Insts : EffectTimerFires(i)
    \/ \E i \in Insts : LoopTimerFires(i)
    \/ \E i \in Insts, preds \in ScriptedSets : DetectResolves(i, preds)
    \/ \E i \in Insts : DetectRejects(i)

Spec == Init /\ [][Next]_vars

\* ------------------------------------- the trigger predicate on its own
\* The inputs of one evaluation of lines 53-71: every Detection Set of up to
\* MaxLen detections over these labels, scores, boxes and frame heights.
Classes == {"cell phone", "remote", "book"}
Scores == {6500, 6501}
Xs == {10, 400}
Ys == {239, 240}
BoxHeights == {150, 300}
Heights == {478, 480}
Detections ==
    { [class |-> c, score |-> s, bbox |-> Bbox(x, y, 100, h)] :
        c \in Classes, s \in Scores, x \in Xs, y \in Ys, h \in BoxHeights }
DetectionSets == UNION { [1..n -> Detections] : n \in 0..MaxLen }

\* the inputs of one evaluation, drawn before it runs
PredInit ==
    /\ currentScreen = SCREENS.WORK
    /\ insult = ""
    /\ distractionCount = 0
    /\ nInst = 1
    /\ ws = [i \in Insts |-> IF i = 1 THEN Mount ELSE Unborn]
    /\ predictions \in DetectionSets
    /\ videoHeight \in Heights
    /\ distracted = FALSE
    /\ last = [op |-> "input", inst |-> 1]

\* lines 53-71 of one tick: const distracted = predictions.some(...)
EvaluatePredicate ==
    /\ last.op = "input"
    /\ distracted' = Some(predictions, videoHeight)
    /\ last' = [op |-> "eval", inst |-> 1]
    /\ UNCHANGED <<currentScreen, insult, distractionCount, nInst, ws,
                   predictions, videoHeight>>

PredNext == EvaluatePredicate

PredSpec == PredInit /\ [][PredNext]_vars

\* ================================================================ claims
\* pending tick timers of one activation
TimersOf(w) == (IF w.timerId = "pending" THEN 1 ELSE 0) + w.loopTimers

\* pending tick timers plus ticks suspended in model.detect
ActiveOf(w) == TimersOf(w) + Len(w.inflight)

RECURSIVE SumOver(_, _)
SumOver(n, f) == IF n = 0 THEN 0 ELSE f[n] + SumOver(n - 1, f)

TotalActive == SumOver(MaxInst, [i \in Insts |-> ActiveOf(ws[i])])
TotalTriggers == SumOver(MaxInst, [i \in Insts |-> ws[i].triggers])

\* C1: an activation calls navigate(ALERT) at most once; once it has, it has
\* no tick timer pending and no tick in flight, so no later tick of it can
\* execute; and the Trigger Events observed by App (distractionCount) are
\* exactly the navigate(ALERT) calls of the activations.
C1_AtMostOnceTrigger ==
    /\ \A i \in Insts :
          /\ ws[i].triggers <= 1
          /\ ws[i].triggers = 1 => ActiveOf(ws[i]) = 0
    /\ distractionCount = TotalTriggers

\* an activation that triggered in its second tick
C1_Witness ==
    \E i \in Insts : ws[i].triggers = 1 /\ ws[i].ticks >= 2 /\ last.op = "trigger"

\* C2: an activation stopped in an inter-tick gap (a tick timer pending, no
\* tick in flight) never begins a tick afterwards.
C2_GapCancellation ==
    \A i \in Insts : ws[i].stopKind = "gap" => ws[i].lateTicks = 0

\* C3: when model.detect resolves or rejects in an activation that was torn
\* down meanwhile, the step changes nothing of App (no navigate(ALERT): screen,
\* insult and distraction count stay) and sets no timer.
C3_InferenceCancellation ==
    [][\A i \in Insts :
          (ws[i].phase = "unmounted" /\ Len(ws'[i].inflight) < Len(ws[i].inflight))
          => /\ currentScreen' = currentScreen
             /\ insult' = insult
             /\ distractionCount' = distractionCount
             /\ ws'[i].triggers = ws[i].triggers
             /\ TimersOf(ws'[i]) = TimersOf(ws[i])]_vars

\* C4: after model.detect failed in a tick of a running (mounted) loop, the
\* error has not propagated and exactly one next tick is scheduled.
C4_FailureResilience ==
    (last.op = "fail" /\ ws[last.inst].phase = "mounted")
    => /\ ws[last.inst].rejections = 0
       /\ TimersOf(ws[last.inst]) = 1

\* C5: over all WorkScreen activations, the pending tick timers plus the
\* ticks in flight are at most 1.
C5_SingleActiveLoop == TotalActive <= 1

\* C6: the computed `distracted` is true iff some detection has a watched
\* class, a score above 0.65 and a top edge above half the frame height;
\* x, width, height and the order of the set play no part.
C6_TriggerPredicate ==
    last.op = "eval" =>
        (distracted <=>
            \E k \in 1..Len(predictions) :
                /\ predictions[k].class \in {"cell phone", "remote"}
                /\ predictions[k].score > 6500
                /\ 2 * predictions[k].bbox[2] < videoHeight)

\* a set whose first detection sits exactly on both boundaries (score 0.65,
\* y = H/2) and whose second one is just inside them
C6_Witness ==
    /\ last.op = "eval"
    /\ Len(predictions) = 2
    /\ predictions[1].class = "cell phone" /\ predictions[1].score = 6500
    /\ 2 * predictions[1].bbox[2] = videoHeight
    /\ predictions[2].class = "remote" /\ predictions[2].score = 6501
    /\ 2 * predictions[2].bbox[2] = videoHeight - 2
    /\ distracted

\* C7 as stated: once the load has failed the status is the error status,
\* the handle is absent and the loop was never started.
C7_LoadFailure_AsStated ==
    \A i \in Insts :
        ws[i].loadPc = "failed"
        => /\ ws[i].status = StatusError
           /\ ~ws[i].model
           /\ ws[i].timerId = "none" /\ ActiveOf(ws[i]) = 0 /\ ws[i].ticks = 0

\* C7 (amended): once the load has failed the handle is absent, no tick timer
\* was ever set and no tick ever ran, the load is not retried, and the status
\* is the error status if the WorkScreen was still mounted when the load
\* failed (else it stays the loading status).
C7_LoadFailure ==
    /\ [](\A i \in Insts :
            ws[i].loadPc = "failed"
            => /\ ~ws[i].model
               /\ ws[i].timerId = "none" /\ ActiveOf(ws[i]) = 0 /\ ws[i].ticks = 0
               /\ ws[i].status \in {StatusError, StatusLoading}
               /\ ws[i].phase = "mounted" => ws[i].status = StatusError)
    /\ [][\A i \in Insts :
            /\ (ws[i].loadPc # "failed" /\ ws'[i].loadPc = "failed")
               => (ws'[i].status = StatusError <=> ws[i].phase = "mounted")
            /\ ws[i].loadPc = "failed"
               => (ws'[i].loadPc = "failed" /\ ws'[i].status = ws[i].status)]_vars

\* a load that failed in a mounted WorkScreen, which was left afterwards
C7_Witness ==
    \E i \in Insts :
        /\ ws[i].loadPc = "failed" /\ ws[i].status = StatusError
        /\ ws[i].phase = "unmounted"

\* C8: navigate(ALERT) is called by an activation only while its loop is
\* running (not torn down), at most once, and leaves a non-empty insult.
C8_TriggerDelivery ==
    [][\A i \in Insts :
          ws'[i].triggers > ws[i].triggers
          => /\ ws[i].phase = "mounted"
             /\ ws'[i].triggers = 1
             /\ insult' # ""
             /\ currentScreen' = SCREENS.ALERT]_vars

\* C9: an activation never has two ticks in flight, and has no tick timer
\* pending while a tick is in flight.
C9_NoParallelTicks ==
    \A i \in Insts :
        /\ Len(ws[i].inflight) <= 1
        /\ ws[i].inflight # <<>> => TimersOf(ws[i]) = 0
        /\ TimersOf(ws[i]) <= 1

\* the second tick of an activation suspended in model.detect
C9_Witness ==
    \E i \in Insts : Len(ws[i].inflight) = 1 /\ ws[i].ticks >= 2

\* C10: a tick that begins with the webcam ref absent, the video not at
\* readyState 4 or the model absent starts no inference, triggers nothing
\* and leaves exactly one tick timer pending.
C10_GuardSkips ==
    [][\A i \in Insts :
          (/\ ws'[i].ticks = ws[i].ticks + 1
           /\ (~ws[i].webcamRef \/ ws[i].readyState # 4 \/ ~ws[i].model))
          => /\ ws'[i].inflight = ws[i].inflight
             /\ ws'[i].triggers = ws[i].triggers
             /\ distractionCount' = distractionCount
             /\ currentScreen' = currentScreen
             /\ TimersOf(ws'[i]) = 1
             /\ ws'[i].loopTimers = 1]_vars

\* a tick of a mounted WorkScreen skipped because the video was not ready
C10_Witness ==
    /\ last.op = "skip"
    /\ ws[last.inst].phase = "mounted"
    /\ ws[last.inst].model /\ ws[last.inst].readyState # 4
    /\ ws[last.inst].loopTimers = 1

\* the trigger predicate as the specification words it
SpecPredicate(D, H) ==
    \E k \in 1..Len(D) :
        /\ D[k].class \in {"cell phone", "remote"}
        /\ D[k].score > 6500
        /\ 2 * D[k].bbox[2] < H

\* the last step was a model.detect resolving in a loop not torn down
ResolvedUncancelled ==
    /\ last.op \in {"trigger", "resched"}
    /\ ws[last.inst].stopKind # "inference"

\* C11: after an inference of an uncancelled loop completed with the trigger
\* predicate false, the loop is still running (mounted, never triggered) with
\* exactly one tick timer pending, set by the tick, and no tick in flight.
C11_RescheduleOnNonTrigger ==
    (ResolvedUncancelled /\ ~SpecPredicate(last.preds, last.H))
    => /\ ws[last.inst].phase = "mounted"
       /\ ws[last.inst].triggers = 0
       /\ ws[last.inst].loopTimers = 1 /\ TimersOf(ws[last.inst]) = 1
       /\ ws[last.inst].inflight = <<>>

\* the second tick of a running loop found a phone in the lower half only
C11_Witness ==
    /\ ResolvedUncancelled
    /\ Len(last.preds) = 2 /\ ~SpecPredicate(last.preds, last.H)
    /\ ws[last.inst].ticks >= 2 /\ ws[last.inst].phase = "mounted"

\* C12: after an inference of an uncancelled loop completed with the trigger
\* predicate true, that tick has emitted the Trigger Event (the activation
\* triggered, App shows the alert with the loop's message) and nothing of the
\* loop is scheduled or in flight.
C12_TriggerOnFirstTrue ==
    (ResolvedUncancelled /\ SpecPredicate(last.preds, last.H))
    => /\ ws[last.inst].triggers = 1
       /\ currentScreen = SCREENS.ALERT
       /\ insult = mockInsult
       /\ distractionCount >= 1
       /\ ActiveOf(ws[last.inst]) = 0

\* a trigger in a second tick, by the second detection of the set
C12_Witness ==
    /\ ResolvedUncancelled
    /\ Len(last.preds) = 2 /\ SpecPredicate(last.preds, last.H)
    /\ ws[last.inst].ticks >= 2 /\ ws[last.inst].triggers = 1

\* C13 as stated: a mounted WorkScreen has a tick timer pending only while
\* the model handle is present and the frame source is ready.
C13_StartCondition_AsStated ==
    \A i \in Insts :
        (ws[i].phase = "mounted" /\ TimersOf(ws[i]) > 0)
        => ws[i].model /\ ws[i].webcamRef /\ ws[i].readyState = 4

\* C13 (amended): a tick is scheduled, in flight or has ever run only in an
\* activation whose model handle is present (its load succeeded); the frame
\* source need not be ready.
C13_StartCondition ==
    \A i \in Insts :
        (ws[i].timerId # "none" \/ ActiveOf(ws[i]) > 0 \/ ws[i].ticks > 0)
        => ws[i].model /\ ws[i].loadPc = "loaded"

\* the first tick scheduled while the video is not ready
C13_Witness ==
    \E i \in Insts :
        /\ ws[i].phase = "mounted" /\ ws[i].timerId = "pending"
        /\ ws[i].ticks = 0 /\ ws[i].readyState # 4

C15_FreshRestart ==
    [][\A i \in Insts :
          /\ (ws[i].phase = "unborn" /\ ws'[i].phase = "mounted")
             => /\ ~ws'[i].model /\ ws'[i].status = StatusLoading
                /\ ActiveOf(ws'[i]) = 0 /\ ws'[i].ticks = 0
          /\ (/\ ws[i].phase = "unmounted"
              /\ ws'[i] # ws[i]
              /\ \E j \in Insts : ws[j].phase = "mounted")
             => /\ currentScreen' = currentScreen
                /\ insult' = insult
                /\ distractionCount' = distractionCount
                /\ \A j \in Insts : ws[j].phase = "mounted" => ws'[j] = ws[j]]_vars

\* C16: distractionCount never decreases; a step in which an activation calls
\* navigate(ALERT) adds exactly 1 and sets the insult to the loop's message;
\* every other step, the nav-bar and Work-screen navigations among them,
\* leaves both unchanged.
C16_CounterFrame ==
    [][/\ distractionCount' >= distractionCount
       /\ \A i \in Insts : ws'[i].triggers \in {ws[i].triggers, ws[i].triggers + 1}
       /\ (\E i \in Insts : ws'[i].triggers = ws[i].triggers + 1)
          => distractionCount' = distractionCount + 1 /\ insult' = mockInsult
       /\ ((\A i \in Insts : ws'[i].triggers = ws[i].triggers) \/ last'.op = "nav")
          => distractionCount' = distractionCount /\ insult' = insult]_vars

\* two Trigger Events counted, then the Stats screen entered
C16_Witness ==
    /\ distractionCount = 2 /\ TotalTriggers = 2
    /\ currentScreen = SCREENS.STATS /\ last.op = "nav" /\ insult = mockInsult

\* C17: an activation stopped in the gap before its first tick (a timer
\* pending, no tick run yet) has no timer left and never runs a tick.
C17_StopBeforeFirstTick ==
    \A i \in Insts :
        (/\ ws[i].phase = "unmounted" /\ ws[i].stopKind = "gap"
         /\ ws[i].ticks = ws[i].lateTicks)
        => ws[i].ticks = 0 /\ ActiveOf(ws[i]) = 0 /\ ws[i].timerId = "cleared"

\* a WorkScreen left after its model loaded and before its first tick
C17_Witness ==
    \E i \in Insts :
        /\ ws[i].phase = "unmounted" /\ ws[i].stopKind = "gap"
        /\ ws[i].model /\ ws[i].ticks = 0 /\ ws[i].timerId = "cleared"

\* C18: in a torn-down activation a tick that began after the teardown has
\* started no inference and the activation has not triggered; a tick is in
\* flight, or a trigger came after the teardown, only if the activation was
\* torn down during an inference and no tick began since.
C18_LateTicksFailGuard ==
    \A i \in Insts :
        ws[i].phase = "unmounted"
        => /\ ws[i].lateTicks > 0 => (ws[i].inflight = <<>> /\ ws[i].triggers = 0)
           /\ (ws[i].inflight # <<>> \/ (ws[i].triggers > 0 /\ ws[i].stopKind # "idle"))
              => (ws[i].stopKind = "inference" /\ ws[i].lateTicks = 0)

\* a tick of a torn-down WorkScreen, begun after the teardown, was skipped
C18_Witness ==
    /\ last.op = "skip"
    /\ ws[last.inst].phase = "unmounted" /\ ws[last.inst].lateTicks >= 1
    /\ ws[last.inst].model /\ ~ws[last.inst].webcamRef

\* C19: an activation torn down while its model was loading never has a
\* tick timer, a tick in flight or a tick run, whatever the load does later.
C19_StopWhileLoading ==
    \A i \in Insts :
        ws[i].stopKind = "loading"
        => /\ ws[i].timerId = "none" /\ ActiveOf(ws[i]) = 0 /\ ws[i].ticks = 0
           /\ ~ws[i].model

\* the load of a torn-down WorkScreen succeeded afterwards
C19_Witness ==
    \E i \in Insts : ws[i].stopKind = "loading" /\ ws[i].loadPc = "loaded"

====
